---- MODULE Spec2Model ----
(***************************************************************************)
(* Model of bot.py: the DexScreener scoring function (compute_metrics),    *)
(* the screening pipeline (screen_tokens) and the per-chat auto-screen     *)
(* scheduling (/autoscreen handler, AUTOSCREEN_JOBS, job_callback).        *)
(*                                                                         *)
(* Numbers.  The program computes with Python floats; every threshold it   *)
(* compares against is an integer or one of 0.1, 0.5, 2.0.  The model uses *)
(* integer field values and keeps the two ratios as exact fractions        *)
(* [num, den]; for the magnitudes used here an IEEE division followed by a *)
(* comparison with such a threshold gives the same answer as the exact     *)
(* comparison.  A raw JSON field is <<>> when it is absent, null or not    *)
(* parseable and <<n>> when it parses to the number n.                     *)
(***************************************************************************)
EXTENDS Integers, Sequences, FiniteSets, TLC

VARIABLES
    pair,             \* compute_metrics: the pair snapshot handed in
    metrics,          \* compute_metrics: the returned dict (valid when mpc = "done")
    mpc,              \* "input" before the call, "done" after it
    run,              \* the screen_tokens call in progress or last finished
    AUTOSCREEN_JOBS,  \* bot.py:484  chat_id -> job
    jobs,             \* the job queue: every repeating job ever created
    replying,         \* /autoscreen handlers suspended in `await reply_text(...)`
    last              \* the most recent step of a handler or of a job_callback

vars == <<pair, metrics, mpc, run, AUTOSCREEN_JOBS, jobs, replying, last>>

----------------------------------------------------------------------------
(* Tuning knobs, bot.py:15-21 (the defaults of the environment variables)  *)

CHAIN_DEFAULT == "solana"
MIN_LIQ_USD == 20000
MIN_VOL24_USD == 50000
MAX_FDV_LIQ == 500
SCREEN_LIMIT == 25
AUTOSCREEN_MINUTES == 2

----------------------------------------------------------------------------
(* Helpers                                                                 *)

None == <<>>

\* bot.py:33-39  None or an unparseable value gives the default, else the number
to_float(x, default) == IF Len(x) = 0 THEN default ELSE x[1]

\* a Python float quotient n/d kept exact
Frac(n, d) == [num |-> n, den |-> d]
Zero == Frac(0, 1)

\* r >= a/b, r > a/b, r < a/b for a fraction r with r.den > 0 and b > 0
FracGE(r, a, b) == r.num * b >= a * r.den
FracGT(r, a, b) == r.num * b > a * r.den
FracLT(r, a, b) == r.num * b < a * r.den
\* Python truthiness of a float: non-zero
Truthy(r) == r.num # 0

Min(a, b) == IF a < b THEN a ELSE b
Max(a, b) == IF a > b THEN a ELSE b

\* the conditional appends of bot.py:137-158, in order
AppendIf(s, cond, flag) == IF cond THEN Append(s, flag) ELSE s

----------------------------------------------------------------------------
(* compute_metrics, bot.py:122-192                                         *)

\* bot.py:132
VLiq(liq, vol24) == IF liq > 0 THEN Frac(vol24, liq) ELSE Zero
\* bot.py:133
FdvLiq(liq, fdv) == IF liq > 0 /\ fdv > 0 THEN Frac(fdv, liq) ELSE Zero

DumpFlagAtScoreThresholds(chg5m, chg1h) == chg5m <= -20 \/ chg1h <= -50

\* bot.py:150-151
DumpFlag(chg5m, chg1h) == chg5m <= -15 \/ chg1h <= -30

\* bot.py:137-158.  age_m is the value age_minutes returned (None or minutes)
Flags(liq, vol24, fdv_liq, chg5m, chg1h, age_m) ==
    LET f1 == AppendIf(<<>>, liq < MIN_LIQ_USD, "Very low liquidity")
        f2 == AppendIf(f1, vol24 < MIN_VOL24_USD, "Low 24h volume")
        f3 == AppendIf(f2, Truthy(fdv_liq) /\ FracGT(fdv_liq, 200, 1), "FDV high vs liquidity")
        f4 == AppendIf(f3, Truthy(fdv_liq) /\ FracGT(fdv_liq, 500, 1), "FDV extreme vs liquidity")
        f5 == AppendIf(f4, chg5m >= 15 /\ chg1h >= 30 /\ liq < 50000, "Likely coordinated pump risk")
        f6 == AppendIf(f5, DumpFlag(chg5m, chg1h), "Sharp dump risk")
        f7 == IF age_m = None THEN f6
              ELSE IF age_m[1] < 60 THEN Append(f6, "Ultra-new (<1h)")
              ELSE IF age_m[1] < 24 * 60 THEN Append(f6, "New (<24h)")
              ELSE f6
    IN  f7

\* bot.py:162-164
LiqAdj(liq) ==
    IF liq >= 200000 THEN 20
    ELSE IF liq >= 50000 THEN 10
    ELSE IF liq < 20000 THEN -15
    ELSE 0

\* bot.py:166-168
ActivityAdj(v_liq) ==
    IF FracGE(v_liq, 2, 1) THEN 10
    ELSE IF FracGE(v_liq, 1, 2) THEN 5
    ELSE IF FracLT(v_liq, 1, 10) THEN -5
    ELSE 0

\* bot.py:170-171
FdvAdj(fdv_liq) ==
    IF FracGE(fdv_liq, 500, 1) THEN -10
    ELSE IF FracGE(fdv_liq, 200, 1) THEN -5
    ELSE 0

\* bot.py:173
PumpAdj(chg5m, chg1h) == IF chg5m >= 20 \/ chg1h >= 50 THEN -5 ELSE 0
\* bot.py:174
DumpAdj(chg5m, chg1h) == IF chg5m <= -20 \/ chg1h <= -50 THEN -5 ELSE 0

\* bot.py:176
Clamp(score) == Max(0, Min(100, score))

LabelOfStrict(score) ==
    IF score > 70 THEN "LOW RISK (relative)"
    ELSE IF score > 50 THEN "MODERATE RISK"
    ELSE "HIGH RISK"

\* bot.py:177
LabelOf(score) ==
    IF score >= 70 THEN "LOW RISK (relative)"
    ELSE IF score >= 50 THEN "MODERATE RISK"
    ELSE "HIGH RISK"

\* bot.py:161-176
Score(liq, v_liq, fdv_liq, chg5m, chg1h) ==
    Clamp(50 + LiqAdj(liq) + ActivityAdj(v_liq) + FdvAdj(fdv_liq)
             + PumpAdj(chg5m, chg1h) + DumpAdj(chg5m, chg1h))

compute_metrics(p) ==
    LET liq == to_float(p.liquidity, 0)
        vol24 == to_float(p.volume, 0)
        fdv == to_float(p.fdv, 0)
        chg5m == to_float(p.m5, 0)
        chg1h == to_float(p.h1, 0)
        chg24 == to_float(p.h24, 0)
        v_liq == VLiq(liq, vol24)
        fdv_liq == FdvLiq(liq, fdv)
        score == Score(liq, v_liq, fdv_liq, chg5m, chg1h)
    IN  [liq |-> liq, vol24 |-> vol24, fdv |-> fdv,
         chg5m |-> chg5m, chg1h |-> chg1h, chg24 |-> chg24,
         v_liq |-> v_liq, fdv_liq |-> fdv_liq, age_m |-> p.age,
         flags |-> Flags(liq, vol24, fdv_liq, chg5m, chg1h, p.age),
         score |-> score, label |-> LabelOf(score)]

\* bot.py:195-203
candidate_passes(m) ==
    IF m.liq < MIN_LIQ_USD THEN FALSE
    ELSE IF m.vol24 < MIN_VOL24_USD THEN FALSE
    ELSE IF Truthy(m.fdv_liq) /\ FracGT(m.fdv_liq, MAX_FDV_LIQ, 1) THEN FALSE
    ELSE TRUE

----------------------------------------------------------------------------
(* Provider responses, bot.py:27-30 and 46-55                              *)

\* A response of the provider: ok = FALSE stands for a timeout, a connection
\* error or a non-2xx status (requests.get / raise_for_status raise); the
\* body of an ok response is a JSON list, a dict holding the list under
\* "data" or "pairs", or some other dict.
Resp(ok, kind, items) == [ok |-> ok, kind |-> kind, items |-> items]
Failure == Resp(FALSE, "none", <<>>)

\* bot.py:46-55
safe_list(body) ==
    IF body.kind = "list" THEN body.items
    ELSE IF body.kind = "data" THEN body.items
    ELSE IF body.kind = "pairs" THEN body.items
    ELSE <<>>

\* bot.py:27-30 followed by safe_list (ds_token_pools 65-68, ds_boosts_* 75-80)
http_list(resp) ==
    IF resp.ok THEN [raised |-> FALSE, list |-> safe_list(resp)]
    ELSE [raised |-> TRUE, list |-> <<>>]

ds_token_pools(resp) == http_list(resp)

----------------------------------------------------------------------------
(* Sorting.  list.sort(key=..., reverse=True) is stable: elements with     *)
(* equal keys keep their order.  The key is named by `by`: "liq" is the    *)
(* key of bot.py:107, "rank" the key of bot.py:264.                        *)

PairLiq(p) == to_float(p.liquidity, 0)
\* bot.py:107  key(p) > key(q)
LiqAbove(p, q) == PairLiq(p) > PairLiq(q)

RankAboveScoreOnly(x, y) == x.m.score > y.m.score

\* bot.py:264  key (score, liq), compared as a tuple: key(x) > key(y)
RankAbove(x, y) ==
    \/ x.m.score > y.m.score
    \/ x.m.score = y.m.score /\ x.m.liq > y.m.liq

Above(by, x, y) == IF by = "liq" THEN LiqAbove(x, y) ELSE RankAbove(x, y)

RECURSIVE InsertDesc(_, _, _)
InsertDesc(s, x, by) ==
    IF s = <<>> THEN <<x>>
    ELSE IF Above(by, x, Head(s)) THEN <<x>> \o s
    ELSE <<Head(s)>> \o InsertDesc(Tail(s), x, by)

RECURSIVE SortDesc(_, _)
SortDesc(s, by) ==
    IF s = <<>> THEN <<>>
    ELSE InsertDesc(SortDesc(SubSeq(s, 1, Len(s) - 1), by), s[Len(s)], by)


\* s[:limit] of a Python list
Slice(s, limit) ==
    IF limit >= 0 THEN SubSeq(s, 1, Min(limit, Len(s)))
    ELSE SubSeq(s, 1, Max(0, Len(s) + limit))

----------------------------------------------------------------------------
(* pick_best_pair, bot.py:103-108                                          *)

\* the pair or None
pick_best_pair(pairs, chain_id) ==
    LET onChain == SelectSeq(pairs, LAMBDA p : p.chainId = chain_id)
    IN  IF onChain = <<>> THEN None ELSE <<SortDesc(onChain, "liq")[1]>>

----------------------------------------------------------------------------
(* fetch_boost_candidates, bot.py:209-233                                  *)

\* a boosted-listing entry; "" stands for a missing chainId / tokenAddress
Item(c, addr) == [chainId |-> c, tokenAddress |-> addr]

RECURSIVE DedupOnChain(_, _, _)
DedupOnChain(raw, chain_id, seen) ==
    IF raw = <<>> THEN <<>>
    ELSE LET it == Head(raw)
             key == <<it.chainId, it.tokenAddress>>
         IN  IF it.chainId = "" \/ it.tokenAddress = "" THEN DedupOnChain(Tail(raw), chain_id, seen)
             ELSE IF it.chainId # chain_id THEN DedupOnChain(Tail(raw), chain_id, seen)
             ELSE IF key \in seen THEN DedupOnChain(Tail(raw), chain_id, seen)
             ELSE <<it>> \o DedupOnChain(Tail(raw), chain_id, seen \cup {key})

\* latestResp, topResp: the provider's answers to the two listing calls
fetch_boost_candidates(latestResp, topResp, chain_id) ==
    LET latest == http_list(latestResp)
        top == http_list(topResp)
    IN  IF latest.raised THEN [raised |-> TRUE, by |-> "ds_boosts_latest", tokens |-> <<>>]
        ELSE IF top.raised THEN [raised |-> TRUE, by |-> "ds_boosts_top", tokens |-> <<>>]
        ELSE [raised |-> FALSE, by |-> "",
              tokens |-> DedupOnChain(latest.list \o top.list, chain_id, {})]

----------------------------------------------------------------------------
(* screen_tokens, bot.py:236-265                                           *)

\* bot.py:251-252
WithBoostFlag(m) ==
    IF m.liq < 40000
    THEN [m EXCEPT !.flags = Append(@, "Boost + low liquidity (marketing pump risk)")]
    ELSE m

\* one pass of the loop body, bot.py:240-261, for candidate t and the
\* provider's answer resp to its pool request; st = [raised, by, seen, scored]
LoopBody(st, t, resp, chain_id) ==
    LET pools == ds_token_pools(resp)
        best == pick_best_pair(pools.list, chain_id)
        m == WithBoostFlag(compute_metrics(best[1]))
        entry == [tokenAddress |-> t.tokenAddress, pair |-> best[1], m |-> m]
    IN  IF pools.raised THEN [st EXCEPT !.raised = TRUE, !.by = "ds_token_pools"]
        ELSE IF best = None THEN st
        ELSE IF ~candidate_passes(m) THEN [st EXCEPT !.seen = Append(@, entry)]
        ELSE [st EXCEPT !.seen = Append(@, entry), !.scored = Append(@, entry)]

\* bot.py:263-265
RankAndCut(scored, limit) == Slice(SortDesc(scored, "rank"), limit)

RECURSIVE Loop(_, _, _, _, _)
Loop(st, cands, i, resps, chain_id) ==
    IF st.raised \/ i > Len(cands) THEN st
    ELSE Loop(LoopBody(st, cands[i], resps[i], chain_id), cands, i + 1, resps, chain_id)

LoopStart == [raised |-> FALSE, by |-> "", seen |-> <<>>, scored |-> <<>>]

\* the whole call; world = [latest, top, pools] holds the provider's answers,
\* pools[i] the answer to the i-th pool request.  Result: raised, or the list
screen_tokens(world, chain_id, limit) ==
    LET c == fetch_boost_candidates(world.latest, world.top, chain_id)
        st == Loop(LoopStart, c.tokens, 1, world.pools, chain_id)
    IN  IF c.raised THEN [raised |-> TRUE, by |-> c.by, result |-> <<>>]
        ELSE IF st.raised THEN [raised |-> TRUE, by |-> st.by, result |-> <<>>]
        ELSE [raised |-> FALSE, by |-> "", result |-> RankAndCut(st.scored, limit)]

----------------------------------------------------------------------------
(* Inputs                                                                  *)

Chains == {"solana", "base"}

\* chat ids, update.effective_chat.id
Chats == {101, 102}

\* the empty dict
EmptyMap == [c \in {} |-> 0]

\* a pair snapshot as the provider returns it (the fields the program reads);
\* age is what age_minutes (bot.py:111-119) makes of pairCreatedAt and the
\* clock: None, or a number of minutes
Pair(c, liq, vol, fdv, m5, h1, h24, age) ==
    [chainId |-> c, liquidity |-> liq, volume |-> vol, fdv |-> fdv,
     m5 |-> m5, h1 |-> h1, h24 |-> h24, age |-> age]

\* values on both sides of every threshold of compute_metrics
LiqValues == {None, <<0>>, <<19999>>, <<20000>>, <<49999>>, <<50000>>, <<200000>>}
VolValues == {None, <<1999>>, <<2000>>, <<10000>>, <<50000>>, <<100000>>, <<400000>>}
FdvValues == {None, <<3999999>>, <<4000000>>, <<10000000>>, <<10000001>>}
M5Values == {None, <<-20>>, <<-15>>, <<-14>>, <<15>>, <<20>>}
H1Values == {None, <<-50>>, <<-30>>, <<-29>>, <<30>>, <<50>>}
AgeValues == {None, <<30>>, <<600>>}

Snapshots ==
    {Pair("solana", l, v, f, a, b, None, g) :
        l \in LiqValues, v \in VolValues, f \in FdvValues,
        a \in M5Values, b \in H1Values, g \in AgeValues}

DefaultPair == Pair("solana", None, None, None, None, None, None, None)
NoMetrics == [score |-> -1]

\* the pairs the pool listings below are made of
P80a == Pair("solana", <<250000>>, <<600000>>, None, None, None, None, None)
P80b == Pair("solana", <<200000>>, <<500000>>, <<1000000>>, <<5>>, None, <<40>>, <<30>>)
P70 == Pair("solana", <<300000>>, <<60000>>, None, None, None, None, <<600>>)
P60 == Pair("solana", <<30000>>, <<60000>>, None, None, <<-30>>, None, None)
PLow == Pair("solana", <<10000>>, <<90000>>, None, None, None, None, None)
PBase == Pair("base", <<900000>>, <<900000>>, None, None, None, None, None)

\* answers of the provider to one pool request
PoolResponses ==
    { Failure,
      Resp(TRUE, "other", <<P80a>>),
      Resp(TRUE, "list", <<P80a>>),
      Resp(TRUE, "list", <<PBase, P80b>>),
      Resp(TRUE, "pairs", <<P70>>),
      Resp(TRUE, "data", <<PLow, P60>>),
      Resp(TRUE, "list", <<PLow>>) }

Items ==
    { Item("solana", "A"), Item("solana", "B"), Item("solana", "C"),
      Item("base", "A"), Item("", "B"), Item("solana", "") }

MaxListing == 2
MaxLimit == 2

SeqsUpTo(S, n) == UNION {[1..k -> S] : k \in 0..n}

BoostResponses == {Failure} \cup {Resp(TRUE, "list", l) : l \in SeqsUpTo(Items, MaxListing)}

----------------------------------------------------------------------------
(* Specification of compute_metrics                                        *)

IdleRun ==
    [pc |-> "idle", chain |-> CHAIN_DEFAULT, limit |-> 0, cands |-> <<>>, i |-> 1,
     st |-> LoopStart, result |-> <<>>]

SchedulerIdle ==
    /\ AUTOSCREEN_JOBS = EmptyMap
    /\ jobs = <<>>
    /\ replying = [c \in Chats |-> 0]
    /\ last = [kind |-> "none"]

schedVars == <<AUTOSCREEN_JOBS, jobs, replying, last>>

MetricsInit ==
    /\ pair \in Snapshots
    /\ metrics = NoMetrics
    /\ mpc = "input"
    /\ run = IdleRun
    /\ SchedulerIdle

Compute ==
    /\ mpc = "input"
    /\ metrics' = compute_metrics(pair)
    /\ mpc' = "done"
    /\ UNCHANGED <<pair, run, schedVars>>

MetricsNext == Compute

SpecMetrics == MetricsInit /\ [][MetricsNext]_vars

----------------------------------------------------------------------------
(* Specification of screen_tokens, one loop pass per step                  *)

ScreenInit ==
    /\ pair = DefaultPair
    /\ metrics = NoMetrics
    /\ mpc = "input"
    /\ run = IdleRun
    /\ SchedulerIdle

\* bot.py:236-239  the call, up to the loop
ScreenStart(chain_id, limit, latestResp, topResp) ==
    /\ run.pc = "idle"
    /\ LET c == fetch_boost_candidates(latestResp, topResp, chain_id)
       IN  run' = [pc |-> IF c.raised THEN "raised" ELSE "loop",
                   chain |-> chain_id, limit |-> limit, cands |-> c.tokens, i |-> 1,
                   st |-> [LoopStart EXCEPT !.raised = c.raised, !.by = c.by],
                   result |-> <<>>]
    /\ UNCHANGED <<pair, metrics, mpc, schedVars>>

\* bot.py:240-261  one pass, the provider answering resp
ScreenPass(resp) ==
    /\ run.pc = "loop"
    /\ run.i <= Len(run.cands)
    /\ LET st == LoopBody(run.st, run.cands[run.i], resp, run.chain)
       IN  run' = [run EXCEPT !.st = st, !.i = @ + 1,
                              !.pc = IF st.raised THEN "raised" ELSE "loop"]
    /\ UNCHANGED <<pair, metrics, mpc, schedVars>>

\* bot.py:263-265
ScreenReturn ==
    /\ run.pc = "loop"
    /\ run.i > Len(run.cands)
    /\ run' = [run EXCEPT !.pc = "returned", !.result = RankAndCut(run.st.scored, run.limit)]
    /\ UNCHANGED <<pair, metrics, mpc, schedVars>>

\* a call with some chain and limit, the provider answering the two listing requests
ScreenCall ==
    /\ run.pc = "idle"
    /\ \E c \in Chains, n \in 0..MaxLimit, l \in BoostResponses, t \in BoostResponses :
          ScreenStart(c, n, l, t)

ScreenNext ==
    \/ ScreenCall
    \/ \E r \in PoolResponses : ScreenPass(r)
    \/ ScreenReturn

SpecScreen == ScreenInit /\ [][ScreenNext]_vars

----------------------------------------------------------------------------
(* Auto-screen scheduling, bot.py:483-533                                  *)
(*                                                                         *)
(* The handler and job_callback are coroutines on one event loop: the code *)
(* between two awaits runs as one step.  The handler's only await is its   *)
(* final reply_text; job_callback's only await is send_message             *)
(* (screen_tokens is an ordinary blocking call).  The job queue runs one   *)
(* instance of a repeating job at a time and never starts a job whose      *)
(* removal was scheduled; time is left out, a live job may tick whenever   *)
(* it is not running.                                                      *)

MaxJobs == 2       \* repeating jobs created over a behaviour
MaxHandlers == 2   \* handlers suspended in reply_text at one time

\* context.args of the messages sent: the words after /autoscreen (split on
\* whitespace, so .strip() leaves each word as it is)
ArgLists == { <<>>, <<"status">>, <<"on">>, <<"ON", "base">>, <<"off">>, <<"OFF", "base">> }

\* str.lower() on the words above
Lower(w) == CASE w = "ON" -> "on" [] w = "OFF" -> "off" [] OTHER -> w

UsageText == <<"Usage: /autoscreen on|off [chainId]">>
DisabledText == <<"Auto-screen disabled.">>
AlreadyOnText == <<"Auto-screen is already ON.">>
EnabledText(chain) ==
    <<"Auto-screen enabled: every", AUTOSCREEN_MINUTES, "minutes on", chain,
      "Use /autoscreen off to stop.">>

\* a job of the queue: the closure's chat_id and chain, whether its removal
\* was scheduled, the payload of the send_message it is suspended in (or
\* None), and how many messages it delivered while not registered
Job(chat_id, chain) ==
    [chat_id |-> chat_id, chain |-> chain, removed |-> FALSE, sending |-> None, late |-> 0]

Registered(j) ==
    jobs[j].chat_id \in DOMAIN AUTOSCREEN_JOBS /\ AUTOSCREEN_JOBS[jobs[j].chat_id] = j

ActiveChain(chat_id) ==
    IF chat_id \in DOMAIN AUTOSCREEN_JOBS THEN jobs[AUTOSCREEN_JOBS[chat_id]].chain ELSE ""

\* the handler suspends in reply_text(text); replying counts the suspended
\* handlers of each chat, the text of the latest is kept in last
Reply(chat_id, text) ==
    replying' = [replying EXCEPT ![chat_id] = @ + 1]

Cmd(chat_id, mode, chain, created, text) ==
    [kind |-> "cmd", chat_id |-> chat_id, mode |-> mode, chain |-> chain,
     wasActive |-> chat_id \in DOMAIN AUTOSCREEN_JOBS, activeChain |-> ActiveChain(chat_id),
     created |-> created, text |-> text]

RECURSIVE Sum(_, _)
Sum(f, S) == IF S = {} THEN 0 ELSE LET c == CHOOSE x \in S : TRUE IN f[c] + Sum(f, S \ {c})

\* the handlers suspended in reply_text
Suspended == Sum(replying, Chats)

\* bot.py:487-489
AutoscreenUsage(chat_id) ==
    /\ Reply(chat_id, UsageText)
    /\ last' = Cmd(chat_id, "usage", "", FALSE, UsageText)
    /\ UNCHANGED <<AUTOSCREEN_JOBS, jobs>>

AutoscreenOffNoRemoval(chat_id) ==
    /\ AUTOSCREEN_JOBS' = [c \in DOMAIN AUTOSCREEN_JOBS \ {chat_id} |-> AUTOSCREEN_JOBS[c]]
    /\ UNCHANGED jobs
    /\ Reply(chat_id, DisabledText)
    /\ last' = Cmd(chat_id, "off", "", FALSE, DisabledText)

\* bot.py:495-500
AutoscreenOff(chat_id) ==
    /\ AUTOSCREEN_JOBS' = [c \in DOMAIN AUTOSCREEN_JOBS \ {chat_id} |-> AUTOSCREEN_JOBS[c]]
    /\ jobs' = IF chat_id \in DOMAIN AUTOSCREEN_JOBS
               THEN [jobs EXCEPT ![AUTOSCREEN_JOBS[chat_id]].removed = TRUE]
               ELSE jobs
    /\ Reply(chat_id, DisabledText)
    /\ last' = Cmd(chat_id, "off", "", FALSE, DisabledText)

\* run_repeating and the registration, bot.py:527-533
Enable(chat_id, chain) ==
    /\ Len(jobs) < MaxJobs
    /\ jobs' = Append(jobs, Job(chat_id, chain))
    /\ AUTOSCREEN_JOBS' = [c \in DOMAIN AUTOSCREEN_JOBS \cup {chat_id} |->
                              IF c = chat_id THEN Len(jobs) + 1 ELSE AUTOSCREEN_JOBS[c]]
    /\ Reply(chat_id, EnabledText(chain))
    /\ last' = Cmd(chat_id, "on", chain, TRUE, EnabledText(chain))

\* bot.py:503-505
AlreadyOn(chat_id, chain) ==
    /\ Reply(chat_id, AlreadyOnText)
    /\ last' = Cmd(chat_id, "on", chain, FALSE, AlreadyOnText)
    /\ UNCHANGED <<AUTOSCREEN_JOBS, jobs>>

AutoscreenOnNoCheck(chat_id, chain) == Enable(chat_id, chain)

AutoscreenOnPerChain(chat_id, chain) ==
    IF chat_id \in DOMAIN AUTOSCREEN_JOBS /\ ActiveChain(chat_id) = chain
    THEN AlreadyOn(chat_id, chain)
    ELSE Enable(chat_id, chain)

\* bot.py:502-533
AutoscreenOn(chat_id, chain) ==
    IF chat_id \in DOMAIN AUTOSCREEN_JOBS
    THEN AlreadyOn(chat_id, chain)
    ELSE Enable(chat_id, chain)

\* bot.py:486-533, up to the handler's await
Autoscreen(chat_id, args) ==
    /\ Suspended < MaxHandlers
    /\ IF args = <<>> \/ Lower(args[1]) \notin {"on", "off"}
       THEN AutoscreenUsage(chat_id)
       ELSE LET mode == Lower(args[1])
                chain == IF Len(args) >= 2 THEN args[2] ELSE CHAIN_DEFAULT
            IN  IF mode = "off" THEN AutoscreenOff(chat_id) ELSE AutoscreenOn(chat_id, chain)
    /\ UNCHANGED <<pair, metrics, mpc, run>>

\* the awaited reply_text returns or raises: the handler ends
ReplyDone(chat_id) ==
    /\ replying[chat_id] > 0
    /\ replying' = [replying EXCEPT ![chat_id] = @ - 1]
    /\ UNCHANGED <<pair, metrics, mpc, run, AUTOSCREEN_JOBS, jobs, last>>

\* what the provider may answer during one tick: listings down; a pool
\* request failing; a candidate that fails the filter; two candidates
World(latest, top, pools) == [latest |-> latest, top |-> top, pools |-> pools]
TickWorlds ==
    { World(Failure, Resp(TRUE, "list", <<>>), <<>>),
      World(Resp(TRUE, "list", <<Item("solana", "A"), Item("base", "A")>>),
            Resp(TRUE, "list", <<>>), <<Failure>>),
      World(Resp(TRUE, "list", <<Item("solana", "A")>>),
            Resp(TRUE, "list", <<Item("base", "B")>>), <<Resp(TRUE, "list", <<PLow>>)>>),
      World(Resp(TRUE, "list", <<Item("solana", "A"), Item("base", "B")>>),
            Resp(TRUE, "list", <<Item("solana", "B"), Item("base", "C")>>),
            <<Resp(TRUE, "pairs", <<P70, PBase>>), Resp(TRUE, "list", <<P80a>>)>>) }

\* bot.py:512-521  the message text, as the picks it lists
Payload(chain, results) ==
    [chain |-> chain,
     picks |-> [k \in 1..Len(results) |->
                  <<k, results[k].tokenAddress, results[k].m.score, results[k].m.liq>>]]

TickStep(j, outcome, sends) ==
    [kind |-> "tick", job |-> j, chat_id |-> jobs[j].chat_id, wasActive |-> Registered(j),
     outcome |-> outcome, sends |-> sends]

TickStartDropOnError(j, world) ==
    LET out == screen_tokens(world, jobs[j].chain, Min(5, SCREEN_LIMIT))
    IN  IF out.raised
        THEN /\ last' = TickStep(j, "raised", 0)
             /\ jobs' = [jobs EXCEPT ![j].removed = TRUE]
             /\ AUTOSCREEN_JOBS' =
                   [c \in DOMAIN AUTOSCREEN_JOBS \ {jobs[j].chat_id} |-> AUTOSCREEN_JOBS[c]]
        ELSE IF out.result = <<>>
        THEN last' = TickStep(j, "empty", 0) /\ UNCHANGED <<jobs, AUTOSCREEN_JOBS>>
        ELSE /\ last' = TickStep(j, "picks", 1)
             /\ jobs' = [jobs EXCEPT ![j].sending = <<Payload(jobs[j].chain, out.result)>>]
             /\ UNCHANGED AUTOSCREEN_JOBS

TickStartSendsEmpty(j, world) ==
    LET out == screen_tokens(world, jobs[j].chain, Min(5, SCREEN_LIMIT))
    IN  IF out.raised
        THEN last' = TickStep(j, "raised", 0) /\ UNCHANGED <<jobs, AUTOSCREEN_JOBS>>
        ELSE /\ last' = TickStep(j, IF out.result = <<>> THEN "empty" ELSE "picks", 1)
             /\ jobs' = [jobs EXCEPT ![j].sending = <<Payload(jobs[j].chain, out.result)>>]
             /\ UNCHANGED AUTOSCREEN_JOBS

\* job_callback up to its await, bot.py:507-525
TickStart(j, world) ==
    LET out == screen_tokens(world, jobs[j].chain, Min(5, SCREEN_LIMIT))
    IN  IF out.raised
        THEN last' = TickStep(j, "raised", 0) /\ UNCHANGED <<jobs, AUTOSCREEN_JOBS>>
        ELSE IF out.result = <<>>
        THEN last' = TickStep(j, "empty", 0) /\ UNCHANGED <<jobs, AUTOSCREEN_JOBS>>
        ELSE /\ last' = TickStep(j, "picks", 1)
             /\ jobs' = [jobs EXCEPT ![j].sending = <<Payload(jobs[j].chain, out.result)>>]
             /\ UNCHANGED AUTOSCREEN_JOBS

\* the job queue fires the repeating job j, bot.py:527
Tick(j) ==
    /\ ~jobs[j].removed
    /\ jobs[j].sending = None
    /\ \E w \in TickWorlds : TickStart(j, w)
    /\ UNCHANGED <<pair, metrics, mpc, run, replying>>

\* the awaited send_message returns (delivered) or raises (swallowed,
\* bot.py:523-525): the tick ends
SendDone(j, delivered) ==
    /\ jobs[j].sending # None
    /\ jobs' = [jobs EXCEPT ![j].sending = None,
                            ![j].late = IF delivered /\ ~Registered(j) THEN @ + 1 ELSE @]
    /\ last' = [kind |-> "sent", job |-> j, chat_id |-> jobs[j].chat_id,
                wasActive |-> Registered(j), delivered |-> delivered]
    /\ UNCHANGED <<pair, metrics, mpc, run, AUTOSCREEN_JOBS, replying>>

Init ==
    /\ pair = DefaultPair
    /\ metrics = NoMetrics
    /\ mpc = "input"
    /\ run = IdleRun
    /\ SchedulerIdle

Next ==
    \/ \E c \in Chats, a \in ArgLists : Autoscreen(c, a)
    \/ \E c \in Chats : ReplyDone(c)
    \/ \E j \in 1..Len(jobs) : Tick(j)
    \/ \E j \in 1..Len(jobs), d \in BOOLEAN : SendDone(j, d)

Spec == Init /\ [][Next]_vars

----------------------------------------------------------------------------
(* Properties of compute_metrics (specification SpecMetrics)               *)

HasFlag(m, flag) == \E k \in 1..Len(m.flags) : m.flags[k] = flag

\* C7: for every pair snapshot the score is an integer with 0 <= score <= 100
\* and the label is fixed by the score alone: LOW RISK from 70, MODERATE RISK
\* from 50 to 69, HIGH RISK below 50.
C7_ScoreRangeAndLabel ==
    mpc = "done" =>
        /\ metrics.score \in 0..100
        /\ metrics.score >= 70 => metrics.label = "LOW RISK (relative)"
        /\ metrics.score >= 50 /\ metrics.score < 70 => metrics.label = "MODERATE RISK"
        /\ metrics.score < 50 => metrics.label = "HIGH RISK"

\* a snapshot scored exactly 70, the lowest LOW RISK score
C7_Witness ==
    mpc = "done" /\ metrics.score = 70 /\ metrics.label = "LOW RISK (relative)"

\* C9 as claimed: with liquidity <= 0 the score gets no activity adjustment,
\* so it is 50 - 15 (liquidity below 20,000), less 5 for a pump and less 5
\* for a dump; both ratios are 0 there.
C9_NoActivityAdjustmentWithoutLiquidity ==
    mpc = "done" /\ metrics.liq <= 0 =>
        metrics.score =
            35 - (IF metrics.chg5m >= 20 \/ metrics.chg1h >= 50 THEN 5 ELSE 0)
               - (IF metrics.chg5m <= -20 \/ metrics.chg1h <= -50 THEN 5 ELSE 0)

\* C10 as claimed: the flag "Sharp dump risk" is set exactly when
\* chg5m <= -20 or chg1h <= -50, the inputs that get the dump adjustment.
C10_DumpFlagAtScoreThresholds ==
    mpc = "done" =>
        (HasFlag(metrics, "Sharp dump risk")
            <=> (metrics.chg5m <= -20 \/ metrics.chg1h <= -50))

\* C10 amended: the flag "Sharp dump risk" is set exactly when chg5m <= -15
\* or chg1h <= -30; the inputs that get the dump adjustment of -5
\* (chg5m <= -20 or chg1h <= -50) all carry it, and so do others.
C10_DumpFlagAtFlagThresholds ==
    mpc = "done" =>
        /\ HasFlag(metrics, "Sharp dump risk")
              <=> (metrics.chg5m <= -15 \/ metrics.chg1h <= -30)
        /\ (metrics.chg5m <= -20 \/ metrics.chg1h <= -50)
              => HasFlag(metrics, "Sharp dump risk")

\* a snapshot flagged for a dump that gets no dump adjustment
C10_Witness ==
    /\ mpc = "done"
    /\ metrics.chg5m = -15 /\ metrics.chg1h > -30
    /\ HasFlag(metrics, "Sharp dump risk")
    /\ metrics.score = 50

----------------------------------------------------------------------------
(* Properties of screen_tokens (specification SpecScreen)                  *)

\* C2 as claimed: a failed pool request drops that candidate only, the call
\* never ends by raising the request's error.
C2_PoolFailureDropsOnlyThatCandidate ==
    ~(run.pc = "raised" /\ run.st.by = "ds_token_pools")

\* the candidates that got a representative pair and pass the filter, in
\* aggregation order
Passing == SelectSeq(run.st.seen, LAMBDA e : candidate_passes(e.m))

\* x ranks strictly above y: higher score, or the same score and more liquidity
StrictlyAbove(x, y) ==
    x.m.score > y.m.score \/ (x.m.score = y.m.score /\ x.m.liq > y.m.liq)

\* the place of P[k] in the ranking of P that keeps input order among equals
Place(P, k) ==
    1 + Cardinality({j \in 1..Len(P) :
            StrictlyAbove(P[j], P[k]) \/ (~StrictlyAbove(P[k], P[j]) /\ j < k)})

\* C8: the returned list is the first N of the passing candidates ordered by
\* score descending, then liquidity descending, equals kept in input order;
\* every returned element passes the filter and no passing candidate left
\* out ranks strictly above a returned one.
C8_RankedTopN ==
    run.pc = "returned" =>
        LET P == Passing
            R == run.result
        IN  /\ Len(R) = Min(run.limit, Len(P))
            /\ \A k \in 1..Len(P) : Place(P, k) <= Len(R) => R[Place(P, k)] = P[k]
            /\ \A k \in 1..Len(R) : candidate_passes(R[k].m)
            /\ \A k \in 1..Len(P) :
                  Place(P, k) > Len(R) => \A q \in 1..Len(R) : ~StrictlyAbove(P[k], R[q])

\* three candidates pass with one score, the first with less liquidity than
\* the other two, which are equal on both keys; the list is cut to those two
C8_Witness ==
    /\ run.pc = "returned"
    /\ Len(Passing) = 3 /\ run.limit = 2
    /\ \A k \in 1..3 : Passing[k].m.score = Passing[1].m.score
    /\ Passing[1].m.liq < Passing[2].m.liq /\ Passing[2].m.liq = Passing[3].m.liq
    /\ run.result = <<Passing[2], Passing[3]>>

----------------------------------------------------------------------------
(* Properties of the auto-screen scheduling (specification Spec)           *)

\* the repeating jobs of a chat that are scheduled and not removed
LiveJobs(c) == {j \in 1..Len(jobs) : jobs[j].chat_id = c /\ ~jobs[j].removed}

\* C1: whatever /autoscreen on and off commands were handled, interleaved
\* at their awaits or not, a key has at most one live timer, and has one
\* exactly when AUTOSCREEN_JOBS holds an entry for it (that timer); enabling
\* an active key creates no timer and answers "already ON".
C1_OneTimerPerKey ==
    /\ \A c \in Chats :
          /\ Cardinality(LiveJobs(c)) <= 1
          /\ c \in DOMAIN AUTOSCREEN_JOBS <=> LiveJobs(c) # {}
          /\ c \in DOMAIN AUTOSCREEN_JOBS => LiveJobs(c) = {AUTOSCREEN_JOBS[c]}
    /\ (last.kind = "cmd" /\ last.mode = "on" /\ last.wasActive)
          => (last.text = AlreadyOnText /\ ~last.created)

\* an enable answered "already ON" while the handler that enabled the key is
\* still suspended in its reply
C1_Witness ==
    /\ last.kind = "cmd" /\ last.mode = "on" /\ last.wasActive
    /\ replying[last.chat_id] = 2
    /\ Cardinality(LiveJobs(last.chat_id)) = 1

\* C3 as claimed: enabling (subscriber, c2) while (subscriber, c1) is Active
\* is not answered "already ON" and creates a subscription of its own.
C3_EnableOtherChainCreatesSubscription ==
    (last.kind = "cmd" /\ last.mode = "on" /\ last.wasActive /\ last.activeChain # last.chain)
        => (last.created /\ last.text # AlreadyOnText)

\* C3 amended: subscriptions are keyed by the subscriber (chat id) alone.
\* Enabling (subscriber, c2) while (subscriber, c1) is Active is answered
\* "already ON", creates no timer and leaves the c1 timer as the
\* subscriber's only one; at most one timer exists per subscriber, over
\* all chains.
C3_KeyedBySubscriberAlone ==
    /\ (last.kind = "cmd" /\ last.mode = "on" /\ last.wasActive /\ last.activeChain # last.chain)
          => /\ last.text = AlreadyOnText
             /\ ~last.created
             /\ LiveJobs(last.chat_id) = {AUTOSCREEN_JOBS[last.chat_id]}
             /\ ActiveChain(last.chat_id) = last.activeChain
    /\ \A c \in Chats :
          \A j, k \in LiveJobs(c) : jobs[j].chain = jobs[k].chain

\* /autoscreen on base handled while the chat's solana timer is running
C3_Witness ==
    /\ last.kind = "cmd" /\ last.mode = "on" /\ last.wasActive
    /\ last.chain = "base" /\ last.activeChain = "solana"
    /\ ActiveChain(last.chat_id) = "solana"

C4_State ==
    /\ (last.kind = "cmd" /\ last.mode = "off")
          => (last.chat_id \notin DOMAIN AUTOSCREEN_JOBS /\ last.text = DisabledText)
    /\ \A c \in Chats \ DOMAIN AUTOSCREEN_JOBS : LiveJobs(c) = {}
    /\ last.kind = "tick" => last.wasActive
    /\ \A j \in 1..Len(jobs) : jobs[j].late <= 1

C4_Step ==
    \A c \in Chats :
        (/\ c \notin DOMAIN AUTOSCREEN_JOBS
         /\ replying'[c] = replying[c] + 1
         /\ last'.kind = "cmd" /\ last'.mode = "off")
            => UNCHANGED <<AUTOSCREEN_JOBS, jobs>>

\* C4: once /autoscreen off is handled the key is Inactive and its timer
\* cancelled, whatever the state before (off for an Inactive key changes
\* nothing and answers as usual); a tick only ever starts for a timer that
\* is registered, so none starts for an Inactive key; a cancelled timer
\* delivers at most once more, from the tick it was suspended in.
C4_DisableStopsTicks == []C4_State /\ [][C4_Step]_vars

\* a timer cancelled while its tick was suspended in send_message has
\* delivered that one message, its key being Inactive
C4_Witness ==
    /\ last.kind = "sent" /\ last.delivered /\ ~last.wasActive
    /\ jobs[last.job].removed /\ jobs[last.job].late = 1
    /\ last.chat_id \notin DOMAIN AUTOSCREEN_JOBS

C5_State ==
    /\ (last.kind \in {"tick", "sent"} /\ last.wasActive)
          => (Registered(last.job) /\ ~jobs[last.job].removed)
    /\ ((last.kind = "sent" \/ (last.kind = "tick" /\ last.outcome # "picks")) /\ last.wasActive)
          => jobs[last.job].sending = None

C5_Step ==
    /\ AUTOSCREEN_JOBS' # AUTOSCREEN_JOBS => last'.kind = "cmd"
    /\ \A c \in Chats :
          (c \in DOMAIN AUTOSCREEN_JOBS /\ c \notin DOMAIN AUTOSCREEN_JOBS')
             => (last'.kind = "cmd" /\ last'.mode = "off" /\ last'.chat_id = c)

\* C5: a tick never changes the registry.  After a tick step of a registered
\* timer (picks found, nothing found, the pipeline raising, the delivery
\* raising) the key is still registered with the same, unremoved timer, and
\* once the tick has ended the timer is ready to fire again; the registry
\* changes only in a command's step and a key leaves it only by /autoscreen
\* off for that key.
C5_TickKeepsRegistry == []C5_State /\ [][C5_Step]_vars

\* a tick whose pipeline run raised, its timer still registered and live
C5_Witness ==
    /\ last.kind = "tick" /\ last.outcome = "raised" /\ last.wasActive
    /\ Registered(last.job) /\ ~jobs[last.job].removed

\* C6 as claimed: every tick whose pipeline run ends without error hands one
\* payload to send_message, the empty result included.
C6_OnePayloadPerCompletedRun ==
    (last.kind = "tick" /\ last.outcome # "raised") => last.sends = 1

\* C6 amended: a tick whose pipeline run returns a non-empty list hands
\* exactly one payload to send_message for the job's chat; a tick whose run
\* returns the empty list, or raises, hands over none.
C6_OnePayloadPerNonEmptyRun ==
    last.kind = "tick" =>
        /\ last.outcome = "picks" =>
              (last.sends = 1 /\ jobs[last.job].sending # None
                 /\ jobs[last.job].sending[1].picks # <<>>)
        /\ last.outcome \in {"empty", "raised"} =>
              (last.sends = 0 /\ jobs[last.job].sending = None)

\* a tick that found two picks and is suspended in send_message
C6_Witness ==
    /\ last.kind = "tick" /\ last.outcome = "picks" /\ last.sends = 1
    /\ Len(jobs[last.job].sending[1].picks) = 2

====
